---- MODULE Spec2Model ----
(***************************************************************************)
(* Schwarzschild ASCII black-hole renderer: the geodesic hit classifier    *)
(* (trace_pixel), the lens map (bh_trace_map), the normalisation scale     *)
(* (bh_compute_norm_scale) and the frame compositor                        *)
(* (bh_generate_ascii_frame) of src/blackhole_core.c.                      *)
(*                                                                         *)
(* Doubles are modelled in fixed point: a real number q is the integer     *)
(* floor(q * Scale).  The code's tiny guards (1e-15, 1e-12, 1e-6), which   *)
(* lie below that resolution, are modelled by the smallest positive        *)
(* fixed-point number, 1.                                                  *)
(***************************************************************************)
EXTENDS Integers, Sequences, FiniteSets, TLC

VARIABLES
  params,   \* BHSceneParams of the call
  px, py,   \* pixel handed to trace_pixel
  x, v,     \* geodesic state x[0..3] = (t, r, theta, phi), v[0..3] its velocity
  x_prev, v_prev, th_prev,   \* state before the last integration step
  rmin,     \* running minimum radius
  step,     \* loop counter of trace_pixel
  h,        \* step size handed to rk4 in the last step
  H,        \* the Hit being built / returned by trace_pixel
  pc,       \* position in trace_pixel: "call", "loop", "done"
  rad,      \* argument of a ring_mul evaluation
  ring,     \* its result (-1 before the evaluation)
  sx, sy,   \* pixel handed to sky_char
  phase,    \* animation phase of the current frame
  ch,       \* symbol returned by sky_char ("?" before the evaluation)
  lens,     \* per pixel, the fields trace_pixel assigns for this scene
  map,      \* lens map buffer written by the latest bh_trace_map call
  map_first,   \* history: the buffer as the first bh_trace_map call left it
  traces,   \* number of bh_trace_map calls so far
  norm_scale,  \* result of bh_compute_norm_scale (-1 before the call)
  frame,    \* frame buffer written by the latest bh_generate_ascii_frame call
  shown,    \* history: the frame the first call produced
  shown_phase, \* history: the phase of that first call
  frames,   \* number of bh_generate_ascii_frame calls so far
  rval,     \* disk value of a pixel handed to the quantiser
  rnorm,    \* norm_scale argument of that frame
  ridx,     \* ramp index computed for it (-1 before the evaluation)
  rch,      \* symbol emitted for it ("?" before the evaluation)
  ctx,      \* the BHContext of the WASM bridge
  wop,      \* the bridge function called last ("none" before the first call)
  wret,     \* what it returned
  winited,  \* history: some bh_wasm_init call has returned 0
  wsize,    \* width and height of the latest call if it was bh_wasm_init, else <<0, 0>>
  heap,     \* the allocator: live blocks, the three pointers of ctx, bookkeeping
  tx_prev,  \* two-variant trace: ray state before the latest step
  tx,       \* ray state after it
  tstep,    \* loop index of the next step
  trmin,    \* running minimum radius
  eqH,      \* outcome of the equatorial variant ("Tracing" while in its loop)
  tiltH     \* outcome of the tilted-plane variant at tilt 0

traceVars == <<params, px, py, x, v, x_prev, v_prev, th_prev, rmin, step, h, H, pc>>

ringVars == <<rad, ring>>

skyVars == <<sx, sy, phase, ch>>

mapVars ==
  <<lens, map, map_first, traces, norm_scale, frame, shown, shown_phase, frames>>

rampVars == <<rval, rnorm, ridx, rch>>

wasmVars == <<ctx, wop, wret, winited, wsize, heap>>

tiltVars == <<tx_prev, tx, tstep, trmin, eqH, tiltH>>

vars == <<traceVars, ringVars, skyVars, mapVars, rampVars, wasmVars, tiltVars>>

(***************************************************************************)
(* Fixed-point arithmetic                                                  *)
(***************************************************************************)
Scale == 1000

Fx(n, d) == (n * Scale) \div d

Abs(a) == IF a < 0 THEN -a ELSE a

Max(a, b) == IF a > b THEN a ELSE b

\* d + eps for one of the code's tiny guards eps: d itself unless d is zero
PlusTiny(d) == IF d = 0 THEN 1 ELSE d

\* floor(a * b / Scale), splitting a so that no intermediate product overflows
MulS(a, b) == (a \div Scale) * b + ((a % Scale) * b) \div Scale

Mul(a, b) == IF Abs(a) >= Abs(b) THEN MulS(a, b) ELSE MulS(b, a)

Div(a, b) == IF b > 0 THEN (a * Scale) \div b ELSE ((-a) * Scale) \div (-b)

\* integer square root of n >= 1 by Newton's iteration from a start xx >= sqrt(n)
RECURSIVE ISqrtFrom(_, _)
ISqrtFrom(n, xx) ==
  LET y == (xx + n \div xx) \div 2
  IN  IF y >= xx THEN xx ELSE ISqrtFrom(n, y)

\* sqrt of a non-negative fixed-point number
RECURSIVE Sqrt(_)
Sqrt(a) ==
  IF a > 2000000 THEN 2 * Sqrt(a \div 4)
  ELSE IF a <= 0 THEN 0
  ELSE ISqrtFrom(a * Scale, (a + Scale) \div 2 + 1)

\* pow(base, gam) for 0 <= base <= 1 and 0 <= gam < 1: the product of the
\* 2^-i-th roots of base over the binary digits of gam
RECURSIVE PowFrac(_, _, _)
PowFrac(base, gam, digits) ==
  IF digits = 0 \/ gam = 0 THEN Fx(1, 1)
  ELSE LET root == Sqrt(base)
       IN  IF 2 * gam >= Scale
           THEN Mul(root, PowFrac(root, 2 * gam - Scale, digits - 1))
           ELSE PowFrac(root, 2 * gam, digits - 1)

Pow(base, gam) == PowFrac(base, gam, 10)

M_PI == Fx(314159, 100000)

HalfPi == M_PI \div 2

TwoPi == 2 * M_PI

\* C fmod: the result has the sign of the dividend
Fmod(a, m) == IF a >= 0 THEN a % m ELSE -((-a) % m)

\* sin on [0, pi] (Bhaskara's rational approximation, exact at 0, pi/2, pi)
SinHalfTurn(y) ==
  LET p == Mul(y, M_PI - y)
  IN  Div(16 * p, 5 * Mul(M_PI, M_PI) - 4 * p)

Sin(a) ==
  LET y == a % TwoPi
  IN  IF y <= M_PI THEN SinHalfTurn(y) ELSE -SinHalfTurn(y - M_PI)

Cos(a) == Sin(a + HalfPi)

Tan(a) == Div(Sin(a), Cos(a))

\* tanh: Pade approximant on [-3, 3], saturated outside
Tanh(z) ==
  IF z >= Fx(3, 1) THEN Fx(1, 1)
  ELSE IF z <= -Fx(3, 1) THEN -Fx(1, 1)
  ELSE LET z2 == Mul(z, z)
       IN  Div(Mul(z, Fx(27, 1) + z2), Fx(27, 1) + 9 * z2)

Floor(a) == (a \div Scale) * Scale

(***************************************************************************)
(* 32-bit unsigned arithmetic on pairs of 16-bit halves                    *)
(***************************************************************************)
U32(n) == [hi |-> n \div 65536, lo |-> n % 65536]

AddU32(a, b) ==
  [hi |-> (a.hi + b.hi + (a.lo + b.lo) \div 65536) % 65536,
   lo |-> (a.lo + b.lo) % 65536]

\* a * b mod 2^32, for a factor b whose low half is small
MulU32(a, b) ==
  [hi |-> (a.hi * b.lo + a.lo * b.hi + (a.lo * b.lo) \div 65536) % 65536,
   lo |-> (a.lo * b.lo) % 65536]

RECURSIVE XorBits(_, _, _)
XorBits(a, b, n) ==
  IF n = 0 THEN 0
  ELSE ((a + b) % 2) + 2 * XorBits(a \div 2, b \div 2, n - 1)

XorU32(a, b) == [hi |-> XorBits(a.hi, b.hi, 16), lo |-> XorBits(a.lo, b.lo, 16)]

(***************************************************************************)
(* Scene constants and parameters                                          *)
(***************************************************************************)
Mbh == Fx(1, 1)

A(r) == Fx(1, 1) - Div(2 * Mbh, r)

rin == Fx(6, 1)

rout == Fx(40, 1)

emiss_p == 2

\* bounds of the model: the pixel grid of the scenes explored
GridW == 3

GridH == 2

bh_update_derived(p) ==
  LET w  == IF p.width < 1 THEN 1 ELSE p.width
      ht == IF p.height < 1 THEN 1 ELSE p.height
  IN  [p EXCEPT !.width = w, !.height = ht,
                !.theta_obs = HalfPi - (p.inc_deg * M_PI) \div 180,
                !.FOVy = (p.FOVx * ht) \div w]

bh_init_scene_params ==
  bh_update_derived(
    [width |-> 80, height |-> 52, robs |-> Fx(39, 1), inc_deg |-> 10,
     phi_obs |-> 0, FOVx |-> (60 * M_PI) \div 180, gamma_c |-> Fx(3, 10),
     theta_obs |-> 0, FOVy |-> 0])

(***************************************************************************)
(* Camera ray generator                                                    *)
(***************************************************************************)
pix_ray(p, ppx, ppy) ==
  LET u    == Fx(2 * ppx + 1, 2 * p.width) - Fx(1, 2)
      w    == Fx(2 * ppy + 1, 2 * p.height) - Fx(1, 2)
      ax   == Mul(u, p.FOVx)
      ay   == Mul(w, p.FOVy)
      nr0  == -Fx(1, 1)
      nth0 == Tan(ay)
      nph0 == Tan(ax)
      norm == Sqrt(Mul(nr0, nr0) + Mul(nth0, nth0) + Mul(nph0, nph0))
      nr   == Div(nr0, norm)
      nth  == Div(nth0, norm)
      nph  == Div(nph0, norm)
      Ar   == A(p.robs)
      s    == Sin(p.theta_obs)
  IN  [x |-> [i \in 0..3 |-> CASE i = 0 -> 0
                               [] i = 1 -> p.robs
                               [] i = 2 -> p.theta_obs
                               [] i = 3 -> p.phi_obs],
       v |-> [i \in 0..3 |-> CASE i = 0 -> Div(Fx(1, 1), Sqrt(Ar))
                               [] i = 1 -> Mul(nr, Sqrt(Ar))
                               [] i = 2 -> Div(nth, p.robs)
                               [] i = 3 -> Div(nph, Mul(p.robs, IF s > 1 THEN s ELSE 1))]]

(***************************************************************************)
(* Geodesic integrator.  rk4 is a pure function of (x, v, h) evaluated in  *)
(* double precision; the model does not compute it.  Its result is any     *)
(* state of a grid that covers every case the classifier distinguishes     *)
(* (radius classes, side of the disk plane, a well-behaved and two         *)
(* diverged velocity/azimuth profiles), followed by the code's clamp of    *)
(* theta away from the poles.                                              *)
(***************************************************************************)
Vec(a, b, c, d) == [i \in 0..3 |-> CASE i = 0 -> a [] i = 1 -> b [] i = 2 -> c [] i = 3 -> d]

ThN == HalfPi - Fx(1, 10)

ThS == HalfPi + Fx(1, 10)

\* velocity of a well-behaved ray
VOk == Vec(Fx(12, 10), -Fx(1, 2), Fx(1, 100), Fx(2, 100))

\* raw results (before the theta clamp) the integrator may produce
Rk4Raw ==
  { [x |-> Vec(0, r, th, Fx(1, 2)), v |-> VOk] :
       r \in {Fx(5, 2), Fx(4, 1), Fx(8, 1), Fx(20, 1), Fx(50, 1)}, th \in {ThN, ThS} }
  \cup { [x |-> Vec(0, Fx(44, 1), th, Fx(1, 2)), v |-> VOk] :
       th \in {-Fx(2, 10), M_PI + Fx(2, 10)} }
  \cup { [x |-> Vec(0, r, ThS, Fx(1, 2)), v |-> VOk] : r \in {Fx(3, 2), Fx(2002, 1000)} }
  \cup { [x |-> Vec(0, Fx(20, 1), HalfPi, Fx(1, 2)), v |-> VOk],
         \* azimuth wound far negative, time component of the velocity negative
         [x |-> Vec(0, Fx(20, 1), ThS, -Fx(7757, 1)), v |-> Vec(-Fx(36, 10), 0, 0, 0)],
         [x |-> Vec(0, Fx(20, 1), ThN, -Fx(7757, 1)), v |-> VOk],
         \* azimuthal velocity large enough to drive the emitted energy below zero
         [x |-> Vec(0, Fx(8, 1), ThS, Fx(3, 1)), v |-> Vec(Fx(12, 10), 0, 0, Fx(1, 1))] }

ClampTheta(xx) ==
  LET lo == IF xx[2] < 1 THEN [xx EXCEPT ![2] = 1] ELSE xx
  IN  IF lo[2] > M_PI - 1 THEN [lo EXCEPT ![2] = M_PI - 1] ELSE lo

rk4(xx, vv, hh) == { [x |-> ClampTheta(c.x), v |-> c.v] : c \in Rk4Raw }

(***************************************************************************)
(* Disk radiometry: ring banding                                           *)
(***************************************************************************)
ring_mul(r) ==
  LET c1         == IF r < rin THEN rin ELSE r
      clamped    == IF c1 > rout THEN rout ELSE c1
      s          == Div(clamped - rin, rout - rin)
      Nbands     == Fx(8, 1)
      fill_frac  == Fx(30, 100)
      edge_soft  == Fx(2, 100)
      band_floor == Fx(12, 100)
      peak       == Fx(145, 100)
      pos        == Mul(Nbands, s)
      f          == pos - Floor(pos)
      w          == PlusTiny(edge_soft)
      t          == Fx(1, 2) + Mul(Fx(1, 2), Tanh(Div(fill_frac - f, w)))
  IN  band_floor + Mul(peak - band_floor, t)

\* bound: radii within RingSpan resolution steps of a disk boundary are explored
RingSpan == 30

RingRadii ==
  { rin + k : k \in -RingSpan..RingSpan } \cup { rout + k : k \in -RingSpan..RingSpan }
  \cup { Fx(k, 1) : k \in 1..45 }

RingIdle == rad = 0 /\ ring = -1

RingEval ==
  /\ ring = -1
  /\ ring' = ring_mul(rad)
  /\ UNCHANGED <<rad, traceVars, skyVars, mapVars, rampVars, wasmVars, tiltVars>>

(***************************************************************************)
(* Frame compositor: starfield                                             *)
(***************************************************************************)
\* h = 1469598103u; h ^= x * 374761393u + y * 668265263u; h *= 16777619u
SkyHash(xx, yy) ==
  LET mix == AddU32(MulU32(U32(374761393), U32(xx)), MulU32(U32(668265263), U32(yy)))
  IN  MulU32(XorU32(U32(1469598103), mix), U32(16777619))

\* the first twinkling tier starts at 10000 instead of 12000
sky_char_low_tier(xx, yy, ph) ==
  LET hh == SkyHash(xx, yy)
      r  == hh.lo
  IN  IF r < 10000 THEN "."
      ELSE IF r < 16000 THEN
        LET tw == Sin(Mul(ph, Fx(60, 100))
                      + (((hh.lo \div 256) + (hh.hi % 4) * 256) * TwoPi) \div 1024)
        IN  IF tw > Fx(92, 100) THEN "*" ELSE "+"
      ELSE IF r < 16800 THEN "+"
      ELSE " "

sky_char(xx, yy, ph) ==
  LET hh == SkyHash(xx, yy)
      r  == hh.lo
  IN  IF r < 12000 THEN "."
      ELSE IF r < 16000 THEN
        LET tw == Sin(Mul(ph, Fx(60, 100))
                      + (((hh.lo \div 256) + (hh.hi % 4) * 256) * TwoPi) \div 1024)
        IN  IF tw > Fx(92, 100) THEN "*" ELSE "+"
      ELSE IF r < 16800 THEN
        LET tw == Sin(Mul(ph, Fx(75, 100)) + ((hh.lo % 1024) * TwoPi) \div 1024)
        IN  IF tw > Fx(10, 100) THEN "*" ELSE "+"
      ELSE " "

\* bounds: pixel coordinates and phases handed to sky_char
SkyW == 4

SkyH == 4

MaxPhaseIdx == 12

Phases == { Fx(k, 2) : k \in 0..MaxPhaseIdx }

SkyIdle == sx = 0 /\ sy = 0 /\ phase = 0 /\ ch = "?"

\* the compositor reaches a Sky pixel in the frame of the current phase
SkyEval ==
  /\ ch = "?"
  /\ ch' = sky_char(sx, sy, phase)
  /\ UNCHANGED <<sx, sy, phase, traceVars, ringVars, mapVars, rampVars, wasmVars, tiltVars>>

\* the same pixel in the frame of another phase
SkyNextFrame ==
  /\ ch # "?"
  /\ \E ph \in Phases \ {phase} :
       /\ phase' = ph
       /\ ch' = sky_char(sx, sy, ph)
  /\ UNCHANGED <<sx, sy, traceVars, ringVars, mapVars, rampVars, wasmVars, tiltVars>>

(***************************************************************************)
(* Hit classifier: trace_pixel                                             *)
(***************************************************************************)
\* bound: the step budget of the loop (5000 in the code), scaled down; it stays
\* above the 11 steps the escape rule waits for
StepBudget == 13

h0 == Fx(1, 2)

rh == 2 * Mbh

\* without the eighth step below 6M
StepSize_no_eighth(r) ==
  IF r < Fx(10, 1) THEN Mul(Fx(25, 100), h0) ELSE h0

\* step size from the radius before the step
StepSize(r) ==
  LET h1 == IF r < Fx(10, 1) THEN Mul(Fx(25, 100), h0) ELSE h0
  IN  IF r < Fx(6, 1) THEN Mul(Fx(125, 1000), h0) ELSE h1

Captured(r) == r <= Mul(Fx(1001, 1000), rh)

Escaped(r, robs, stp) == r > Mul(Fx(12, 10), robs) /\ stp > 10

\* without the final Sky branch: bg_type stays as initialised
ClosestApproach_no_sky(rm) ==
  IF rm < 3 * Mbh THEN 2 ELSE IF rm < rin THEN 3 ELSE 0

\* Sky from 3M outwards, no inner-void tier
ClosestApproach_two_tier(rm) ==
  IF rm < 3 * Mbh THEN 2 ELSE 1

\* closest-approach classification: 2 captured, 3 inner void, 1 sky
ClosestApproach(rm) ==
  IF rm < 3 * Mbh THEN 2 ELSE IF rm < rin THEN 3 ELSE 1

\* a * b <= 0.0 for doubles whose product does not underflow
NonPositiveProduct(a, b) == (a <= 0 /\ b >= 0) \/ (a >= 0 /\ b <= 0)

\* equatorial plane test between the previous and the current polar angle
Crossing(thp, th) == NonPositiveProduct(thp - HalfPi, th - HalfPi)

\* (pi/2 - th_prev) / (theta - th_prev + 1e-15)
CrossFrac(thp, th) ==
  Div(HalfPi - thp, PlusTiny(th - thp))

Lerp(a, b, f) == a + Mul(f, b - a)

metric(r, th) ==
  LET Ar == A(r)
      s  == Sin(th)
      s2 == Mul(s, s)
  IN  [a \in 0..3 |-> [b \in 0..3 |->
         IF a # b THEN 0
         ELSE CASE a = 0 -> -Ar
                [] a = 1 -> Div(Fx(1, 1), Ar)
                [] a = 2 -> Mul(r, r)
                [] a = 3 -> Mul(Mul(r, r), s2)]]

Lower(gmn, vh) ==
  [a \in 0..3 |-> Mul(gmn[a][0], vh[0]) + Mul(gmn[a][1], vh[1])
                  + Mul(gmn[a][2], vh[2]) + Mul(gmn[a][3], vh[3])]

\* g = Eobs / (Eem > 1e-15 ? Eem : 1e-15)
Redshift(robs, rhit, vh) ==
  LET pmu    == Lower(metric(rhit, HalfPi), vh)
      ut_obs == Div(Fx(1, 1), Sqrt(A(robs)))
      Eobs   == -Mul(pmu[0], ut_obs)
      denom  == Sqrt(Fx(1, 1) - Div(3 * Mbh, rhit))
      ut     == Div(Fx(1, 1), denom)
      uphi   == Div(Sqrt(Div(Mbh, Mul(Mul(rhit, rhit), rhit))), denom)
      Eem    == -(Mul(pmu[0], ut) + Mul(pmu[3], uphi))
  IN  Div(Eobs, IF Eem > 1 THEN Eem ELSE 1)

\* stores the ratio as computed
ClampG_unclamped(g) == g

\* H.g = g > 0 ? g : 0
ClampG(g) == IF g > 0 THEN g ELSE 0

\* H.phi = fmod(phit + 1000.0 * M_PI * 2, 2 * M_PI)
WrapPhi(phit) == Fmod(phit + 1000 * M_PI * 2, 2 * M_PI)

\* a to the n-th power, n a natural number
RECURSIVE IntPow(_, _)
IntPow(a, n) == IF n = 0 THEN Fx(1, 1) ELSE Mul(a, IntPow(a, n - 1))

\* pow(rhit, -emiss_p)
Emiss(rhit) == Div(Fx(1, 1), IntPow(rhit, emiss_p))

\* without the outer edge
InDisk_no_outer_edge(rhit) == rhit >= rin

InDisk(rhit) == rhit >= rin /\ rhit <= rout

DiskHit(robs, xp, vp, xc, vc, f) ==
  LET rhit == Lerp(xp[1], xc[1], f)
      phit == Lerp(xp[3], xc[3], f)
      vh   == [i \in 0..3 |-> Lerp(vp[i], vc[i], f)]
  IN  [hit |-> 1, bg_type |-> 0, r |-> rhit, phi |-> WrapPhi(phit),
       g |-> ClampG(Redshift(robs, rhit, vh)), emiss |-> Emiss(rhit)]

\* tests the disk crossing before the capture
Rule_disk_first(robs, stp, thp, xp, xc) ==
  IF Crossing(thp, xc[2])
     /\ InDisk(Lerp(xp[1], xc[1], CrossFrac(thp, xc[2]))) THEN "disk"
  ELSE IF Captured(xc[1]) THEN "captured"
  ELSE IF Escaped(xc[1], robs, stp) THEN "escaped"
  ELSE "tracing"

\* tests the disk crossing before the escape
Rule_escape_last(robs, stp, thp, xp, xc) ==
  IF Captured(xc[1]) THEN "captured"
  ELSE IF Crossing(thp, xc[2])
          /\ InDisk(Lerp(xp[1], xc[1], CrossFrac(thp, xc[2]))) THEN "disk"
  ELSE IF Escaped(xc[1], robs, stp) THEN "escaped"
  ELSE "tracing"

\* what the rules decide after one integration step: "captured", "escaped",
\* "disk" or "tracing", in the order the code tests them
Rule(robs, stp, thp, xp, xc) ==
  IF Captured(xc[1]) THEN "captured"
  ELSE IF Escaped(xc[1], robs, stp) THEN "escaped"
  ELSE IF Crossing(thp, xc[2])
          /\ InDisk(Lerp(xp[1], xc[1], CrossFrac(thp, xc[2]))) THEN "disk"
  ELSE "tracing"

\* lines 198-209: Hit H; H.hit = 0; H.bg_type = 0; pix_ray; save previous state.
\* H.r, H.phi, H.g and H.emiss are not assigned: the record has no such fields yet.
TraceBegin ==
  /\ pc = "call"
  /\ LET ray == pix_ray(params, px, py)
     IN  /\ x' = ray.x
         /\ v' = ray.v
         /\ th_prev' = ray.x[2]
         /\ x_prev' = ray.x
         /\ v_prev' = ray.v
         /\ rmin' = ray.x[1]
  /\ H' = [hit |-> 0, bg_type |-> 0]
  /\ step' = 0
  /\ pc' = "loop"
  /\ UNCHANGED <<params, px, py, h>>
  /\ UNCHANGED <<ringVars, skyVars, mapVars, rampVars, wasmVars, tiltVars>>

\* lines 210-274: one iteration of the loop
TraceStep ==
  /\ pc = "loop"
  /\ step < StepBudget
  /\ h' = StepSize(x[1])
  /\ \E out \in rk4(x, v, StepSize(x[1])) :
       LET nrmin == IF out.x[1] < rmin THEN out.x[1] ELSE rmin
           rule  == Rule(params.robs, step, th_prev, x_prev, out.x)
       IN  /\ x' = out.x
           /\ v' = out.v
           /\ rmin' = nrmin
           /\ CASE rule = "captured" ->
                     /\ H' = [H EXCEPT !.bg_type = 2]
                     /\ pc' = "done"
                     /\ UNCHANGED <<th_prev, x_prev, v_prev, step>>
                [] rule = "escaped" ->
                     /\ H' = [H EXCEPT !.bg_type = ClosestApproach(nrmin)]
                     /\ pc' = "done"
                     /\ UNCHANGED <<th_prev, x_prev, v_prev, step>>
                [] rule = "disk" ->
                     /\ H' = DiskHit(params.robs, x_prev, v_prev, out.x, out.v,
                                     CrossFrac(th_prev, out.x[2]))
                     /\ pc' = "done"
                     /\ UNCHANGED <<th_prev, x_prev, v_prev, step>>
                [] OTHER ->
                     /\ th_prev' = out.x[2]
                     /\ x_prev' = out.x
                     /\ v_prev' = out.v
                     /\ step' = step + 1
                     /\ pc' = "loop"
                     /\ UNCHANGED H
  /\ UNCHANGED <<params, px, py>>
  /\ UNCHANGED <<ringVars, skyVars, mapVars, rampVars, wasmVars, tiltVars>>

\* classifies the exhausted trace by the radius it stopped at
TraceExhausted_current_radius ==
  /\ pc = "loop"
  /\ step = StepBudget
  /\ H' = [H EXCEPT !.bg_type = ClosestApproach(x[1])]
  /\ pc' = "done"
  /\ UNCHANGED <<params, px, py, x, v, x_prev, v_prev, th_prev, rmin, step, h>>
  /\ UNCHANGED <<ringVars, skyVars, mapVars, rampVars, wasmVars, tiltVars>>

\* lines 275-282: the loop ran out of steps
TraceExhausted ==
  /\ pc = "loop"
  /\ step = StepBudget
  /\ H' = [H EXCEPT !.bg_type = ClosestApproach(rmin)]
  /\ pc' = "done"
  /\ UNCHANGED <<params, px, py, x, v, x_prev, v_prev, th_prev, rmin, step, h>>
  /\ UNCHANGED <<ringVars, skyVars, mapVars, rampVars, wasmVars, tiltVars>>

(***************************************************************************)
(* Lens map, normalisation and frame compositor                            *)
(***************************************************************************)
\* the 30 symbols of RAMP; the grave accent, which a string constant cannot
\* hold, is written "grave"
RAMP ==
  << " ", "grave", ",", "-", ":", "'", "_", ";", "~", "/", "\\", "^", "\"", "<", ">",
     "!", "=", "(", ")", "?", "{", "}", "|", "[", "]", "#", "%", "$", "&", "@" >>

bh_index(p, xx, yy) == yy * p.width + xx

bh_pixel_count(p) == p.width * p.height

hotspots_mul(r, phi, ph) ==
  LET amp  == Fx(3, 1)
      rc   == Mul(Fx(1, 2), rout)
      Rh   == Mul(Fx(1, 2), rout)
      edge == Mul(Fx(1, 10), rout)
      hx   == Mul(r, Cos(phi))
      hy   == Mul(r, Sin(phi))
      ang  == -ph
      cx   == Mul(rc, Cos(ang))
      cy   == Mul(rc, Sin(ang))
      dx   == hx - cx
      dy   == hy - cy
      d    == Sqrt(Mul(dx, dx) + Mul(dy, dy))
      t    == Fx(1, 2) + Mul(Fx(1, 2), Tanh(Div(Rh - d, PlusTiny(edge))))
  IN  Fx(1, 1) + Mul(amp, t)

base_disk_value(hit) ==
  LET g3 == Mul(Mul(hit.g, hit.g), hit.g)
  IN  Mul(Mul(hit.emiss, g3), ring_mul(hit.r))

disk_value_with_hotspots(hit, ph) ==
  Mul(base_disk_value(hit), hotspots_mul(hit.r, hit.phi, ph))

\* the loop of bh_compute_norm_scale from index i on
RECURSIVE NormLoop(_, _, _, _)
NormLoop(m, i, count, norm) ==
  IF i >= count THEN norm
  ELSE NormLoop(m, i + 1, count,
                IF m[i].hit # 0 /\ base_disk_value(m[i]) > norm
                THEN base_disk_value(m[i]) ELSE norm)

\* double norm_scale = 1e-12: the smallest positive value of the resolution
NormFloor == 1

\* starts from a floor of 1.0 instead of 1e-12
bh_compute_norm_scale_unit_floor(p, m) == NormLoop(m, 0, bh_pixel_count(p), Fx(1, 1))

bh_compute_norm_scale(p, m) == NormLoop(m, 0, bh_pixel_count(p), NormFloor)

\* scales by the level count instead of the level count less one
RampIndex_level_count(gamma_c, val, ns) ==
  LET v0 == Div(val, ns)
      v1 == IF v0 < 0 THEN 0 ELSE v0
      v2 == IF v1 > Fx(1, 1) THEN Fx(1, 1) ELSE v1
      q  == Pow(v2, gamma_c)
      i0 == (q * Len(RAMP)) \div Scale
  IN  IF i0 > Len(RAMP) - 1 THEN Len(RAMP) - 1 ELSE i0

\* idx_base of lines 364-378 for the disk value val
RampIndex(gamma_c, val, ns) ==
  LET v0       == Div(val, ns)
      v1       == IF v0 < 0 THEN 0 ELSE v0
      v2       == IF v1 > Fx(1, 1) THEN Fx(1, 1) ELSE v1
      q        == Pow(v2, gamma_c)
      ramp_len == Len(RAMP)
      i0       == (q * (ramp_len - 1)) \div Scale
      i1       == IF i0 < 0 THEN 0 ELSE i0
  IN  IF i1 > ramp_len - 1 THEN ramp_len - 1 ELSE i1

\* the symbol of a DiskHit pixel
RampChar(p, hit, ph, ns) ==
  RAMP[RampIndex(p.gamma_c, disk_value_with_hotspots(hit, ph), ns) + 1]

\* bound: disk values 7*k - 14 for k up to MaxRampIdx are handed to the quantiser
MaxRampIdx == 40

RampValues == { 7 * k - 14 : k \in 0..MaxRampIdx }

RampNorms == { -Fx(1, 1), 0, 1, 17, 100, 250 }

RampIdle == rval = 0 /\ rnorm = 0 /\ ridx = -1 /\ rch = "?"

\* lines 350-352 and 362-379 for one DiskHit pixel
RampEval ==
  /\ ridx = -1
  /\ LET scale == IF rnorm <= 0 THEN Fx(1, 1) ELSE rnorm
     IN  /\ ridx' = RampIndex(params.gamma_c, rval, scale)
         /\ rch' = RAMP[RampIndex(params.gamma_c, rval, scale) + 1]
  /\ UNCHANGED <<rval, rnorm, traceVars, ringVars, skyVars, mapVars, wasmVars, tiltVars>>

\* only Captured is blank: an InnerVoid pixel shows the starfield
PixelChar_void_as_sky(p, hit, xx, yy, ph, ns) ==
  IF hit.hit # 0 THEN RampChar(p, hit, ph, ns)
  ELSE IF hit.bg_type = 2 THEN " "
  ELSE sky_char(xx, yy, ph)

\* the symbol of the pixel at (xx, yy)
PixelChar(p, hit, xx, yy, ph, ns) ==
  IF hit.hit # 0 THEN RampChar(p, hit, ph, ns)
  ELSE IF hit.bg_type = 2 THEN " "
  ELSE IF hit.bg_type = 3 THEN " "
  ELSE sky_char(xx, yy, ph)

\* the indices the two loops visit
Visited(p) == { bh_index(p, xx, yy) : xx \in 0..(p.width - 1), yy \in 0..(p.height - 1) }

\* leaves a pixel whose symbol is ' ' as the buffer had it
bh_generate_ascii_frame_skip_blank(p, m, ph, ns, out_chars) ==
  LET scale == IF ns <= 0 THEN Fx(1, 1) ELSE ns
  IN  [idx \in DOMAIN out_chars |->
         LET c == PixelChar(p, m[idx], idx % p.width, idx \div p.width, ph, scale)
         IN  IF idx \in Visited(p) /\ c # " " THEN c ELSE out_chars[idx]]

\* writes the rows as lines: a "\n" after each row, the next row after it
bh_generate_ascii_frame_lines(p, m, ph, ns, out_chars) ==
  LET scale == IF ns <= 0 THEN Fx(1, 1) ELSE ns
  IN  [idx \in DOMAIN out_chars |->
         LET yy == idx \div (p.width + 1)
             xx == idx % (p.width + 1)
         IN  IF yy >= p.height THEN out_chars[idx]
             ELSE IF xx = p.width THEN "\n"
             ELSE PixelChar(p, m[bh_index(p, xx, yy)], xx, yy, ph, scale)]

\* the content of out_chars after the call
bh_generate_ascii_frame(p, m, ph, ns, out_chars) ==
  LET scale == IF ns <= 0 THEN Fx(1, 1) ELSE ns
  IN  [idx \in DOMAIN out_chars |->
         IF idx \in Visited(p)
         THEN PixelChar(p, m[idx], idx % p.width, idx \div p.width, ph, scale)
         ELSE out_chars[idx]]

\* Results of trace_pixel the lens maps are built from: what the classifier
\* returns for a ray that escapes, falls in, stalls inside rin, or crosses the
\* disk between two integrator states.
SideN(r) == [x |-> Vec(0, r, ThN, Fx(1, 2)), v |-> VOk]

SideS(r) == [x |-> Vec(0, r, ThS, Fx(1, 2)), v |-> VOk]

CrossingHit(robs, prev, cur) ==
  DiskHit(robs, prev.x, prev.v, cur.x, cur.v, CrossFrac(prev.x[2], cur.x[2]))

TraceResults(p) ==
  << [hit |-> 0, bg_type |-> 1],
     CrossingHit(p.robs, SideN(Fx(4, 1)), SideS(Fx(8, 1))),
     [hit |-> 0, bg_type |-> 2],
     CrossingHit(p.robs, SideN(Fx(8, 1)), SideS(Fx(14, 1))),
     [hit |-> 0, bg_type |-> 3],
     CrossingHit(p.robs, SideN(Fx(20, 1)),
                 [x |-> Vec(0, Fx(20, 1), ThS, -Fx(7757, 1)), v |-> Vec(-Fx(36, 10), 0, 0, 0)]),
     [hit |-> 0, bg_type |-> 1],
     CrossingHit(p.robs, SideN(Fx(10, 1)), SideS(Fx(20, 1))) >>

\* the lens of a scene: every pixel the same result (stride 0) or the results in turn
Lens(p, first, stride) ==
  [idx \in 0..(bh_pixel_count(p) - 1) |->
     TraceResults(p)[((first + stride * idx) % Len(TraceResults(p))) + 1]]

\* what the four unassigned doubles of a returned Hit may hold
Residue ==
  << [r |-> 0, phi |-> 0, g |-> 0, emiss |-> 0],
     [r |-> Fx(8, 1), phi |-> Fx(1, 2), g |-> Fx(1, 1), emiss |-> Fx(1, 64)] >>

\* the Hit stored for a pixel: the fields trace_pixel assigned, and for a
\* non-hit the leftover content of H.r, H.phi, H.g, H.emiss
Stored(res, left) ==
  IF res.hit # 0 THEN res
  ELSE [hit |-> res.hit, bg_type |-> res.bg_type,
        r |-> left.r, phi |-> left.phi, g |-> left.g, emiss |-> left.emiss]

\* bounds of the call sequence
MaxTraces == 2

MaxFrames == 3

MaxFrameIdx == 1

FramePhases == { Fx(3 * k, 2) : k \in 0..MaxFrameIdx }

\* bound: cells the caller's buffer holds after the width*height cells of a frame
GuardLen == 2

\* contents of a frame buffer the caller has not written; the cells after the
\* frame hold "guard"
FreshBuffers(p) ==
  { [idx \in 0..(bh_pixel_count(p) + GuardLen - 1) |->
       IF idx < bh_pixel_count(p) THEN c ELSE "guard"] : c \in {"x", "y"} }

MapIdle ==
  /\ lens = <<>> /\ map = <<>> /\ map_first = <<>> /\ traces = 0
  /\ norm_scale = -1
  /\ frame = <<>> /\ shown = <<>> /\ shown_phase = 0 /\ frames = 0

\* the content of map_out after bh_trace_map, for the leftover pattern k
TracedMap(p, ln, k) ==
  [idx \in 0..(bh_pixel_count(p) - 1) |->
     Stored(ln[idx], Residue[((k + idx) % Len(Residue)) + 1])]

\* bh_trace_map: map_out[bh_index(x, y)] = trace_pixel(params, x, y) for every pixel
bh_trace_map ==
  /\ traces < MaxTraces
  /\ norm_scale = -1
  /\ \E k \in 0..(Len(Residue) - 1) : map' = TracedMap(params, lens, k)
  /\ map_first' = IF traces = 0 THEN map' ELSE map_first
  /\ traces' = traces + 1
  /\ UNCHANGED <<lens, norm_scale, frame, shown, shown_phase, frames>>
  /\ UNCHANGED <<traceVars, ringVars, skyVars, rampVars, wasmVars, tiltVars>>

ComputeNorm ==
  /\ traces > 0
  /\ norm_scale = -1
  /\ norm_scale' = bh_compute_norm_scale(params, map)
  /\ UNCHANGED <<lens, map, map_first, traces, frame, shown, shown_phase, frames>>
  /\ UNCHANGED <<traceVars, ringVars, skyVars, rampVars, wasmVars, tiltVars>>

\* a call with a fresh buffer, or with the buffer of the previous frame
GenerateFrame ==
  /\ norm_scale # -1
  /\ frames < MaxFrames
  /\ \E ph \in FramePhases :
     \E out_chars \in FreshBuffers(params) \cup (IF frames > 0 THEN {frame} ELSE {}) :
       /\ phase' = ph
       /\ frame' = bh_generate_ascii_frame(params, map, ph, norm_scale, out_chars)
       /\ shown' = IF frames = 0 THEN frame' ELSE shown
       /\ shown_phase' = IF frames = 0 THEN ph ELSE shown_phase
  /\ frames' = frames + 1
  /\ UNCHANGED <<lens, map, map_first, traces, norm_scale>>
  /\ UNCHANGED <<traceVars, ringVars, sx, sy, ch, rampVars, wasmVars, tiltVars>>

(***************************************************************************)
(* WASM bridge: src/blackhole_wasm.c                                       *)
(***************************************************************************)
ParamsZero ==
  [width |-> 0, height |-> 0, robs |-> 0, inc_deg |-> 0, phi_obs |-> 0,
   FOVx |-> 0, gamma_c |-> 0, theta_obs |-> 0, FOVy |-> 0]

\* static BHContext ctx = {0}; a null pointer is the empty buffer <<>>
CtxZero ==
  [params |-> ParamsZero, map |-> <<>>, raw_pixels |-> <<>>, frame_chars |-> <<>>,
   pixel_count |-> 0, frame_bytes |-> 0, norm_scale |-> 0]

\* the context after bh_wasm_clear
bh_wasm_clear == CtxZero

\* the trace_pixel results of a scene
SceneLens(p) ==
  LET res == TraceResults(p)
  IN  [idx \in 0..(bh_pixel_count(p) - 1) |->
         res[((p.width + p.height + idx) % Len(res)) + 1]]

\* on a failed malloc returns -2 with the other buffers still in the context
bh_wasm_alloc_buffers_keep(c, failed, fill) ==
  LET count == bh_pixel_count(c.params)
      bytes == count + c.params.height + 1
      got(name, len) == IF failed = name THEN <<>> ELSE [i \in 0..(len - 1) |-> fill]
  IN  IF count = 0 THEN [ctx |-> [c EXCEPT !.pixel_count = 0], status |-> -1]
      ELSE [ctx |-> [c EXCEPT !.pixel_count = count,
                              !.map = got("map", count),
                              !.raw_pixels = got("raw_pixels", count),
                              !.frame_bytes = bytes,
                              !.frame_chars = got("frame_chars", bytes)],
            status |-> IF failed # "none" THEN -2 ELSE 0]

\* context and status after bh_wasm_alloc_buffers; failed names the malloc that
\* returns NULL ("none": all succeed), fill the content of fresh memory
bh_wasm_alloc_buffers(c, failed, fill) ==
  LET count == bh_pixel_count(c.params)
      bytes == count + c.params.height + 1
  IN  IF count = 0 THEN [ctx |-> [c EXCEPT !.pixel_count = 0], status |-> -1]
      ELSE IF failed # "none" THEN [ctx |-> bh_wasm_clear, status |-> -2]
      ELSE [ctx |-> [c EXCEPT !.pixel_count = count,
                              !.map = [i \in 0..(count - 1) |-> fill],
                              !.raw_pixels = [i \in 0..(count - 1) |-> fill],
                              !.frame_bytes = bytes,
                              !.frame_chars = [i \in 0..(bytes - 1) |-> fill]],
            status |-> 0]

\* context and return value of bh_wasm_init
bh_wasm_init(c, width, height, inc_deg, fovx_deg, robs, failed, fill, k) ==
  IF width <= 0 \/ height <= 0 THEN [ctx |-> c, ret |-> -1]
  ELSE
    LET p0 == [bh_init_scene_params EXCEPT !.width = width, !.height = height]
        p1 == IF inc_deg > -89 /\ inc_deg < 89 THEN [p0 EXCEPT !.inc_deg = inc_deg] ELSE p0
        p2 == IF fovx_deg > 5 /\ fovx_deg < 170
              THEN [p1 EXCEPT !.FOVx = (fovx_deg * M_PI) \div 180] ELSE p1
        p3 == IF robs > Fx(10, 1) /\ robs < Fx(2000, 1) THEN [p2 EXCEPT !.robs = robs] ELSE p2
        p4 == bh_update_derived(p3)
        al == bh_wasm_alloc_buffers([bh_wasm_clear EXCEPT !.params = p4], failed, fill)
    IN  IF al.status # 0 THEN [ctx |-> al.ctx, ret |-> al.status]
        ELSE LET m == TracedMap(p4, SceneLens(p4), k)
             IN  [ctx |-> [al.ctx EXCEPT !.map = m,
                                         !.norm_scale = bh_compute_norm_scale(p4, m)],
                  ret |-> 0]

\* the row loop of bh_wasm_generate_frame from row y on: dst is the write position
RECURSIVE CopyRows(_, _, _, _, _, _)
CopyRows(out, src, width, height, y, dst) ==
  IF y >= height THEN [out EXCEPT ![dst] = "NUL"]
  ELSE CopyRows([i \in DOMAIN out |->
                   IF i >= dst /\ i < dst + width THEN src[y * width + (i - dst)]
                   ELSE IF i = dst + width THEN "\n"
                   ELSE out[i]],
                src, width, height, y + 1, dst + width + 1)

\* recomputes the normalisation for every frame, from a floor of 1.0
bh_wasm_generate_frame_renorm(c, ph) ==
  IF c.map = <<>> \/ c.raw_pixels = <<>> \/ c.frame_chars = <<>>
  THEN [ctx |-> c, ret |-> "NULL"]
  ELSE LET ns  == bh_compute_norm_scale_unit_floor(c.params, c.map)
           raw == bh_generate_ascii_frame(c.params, c.map, ph, ns, c.raw_pixels)
       IN  [ctx |-> [c EXCEPT !.norm_scale = ns,
                              !.raw_pixels = raw,
                              !.frame_chars = CopyRows(c.frame_chars, raw, c.params.width,
                                                       c.params.height, 0, 0)],
            ret |-> "frame_chars"]

\* context and return value of bh_wasm_generate_frame
bh_wasm_generate_frame(c, ph) ==
  IF c.map = <<>> \/ c.raw_pixels = <<>> \/ c.frame_chars = <<>>
  THEN [ctx |-> c, ret |-> "NULL"]
  ELSE LET raw == bh_generate_ascii_frame(c.params, c.map, ph, c.norm_scale, c.raw_pixels)
       IN  [ctx |-> [c EXCEPT !.raw_pixels = raw,
                              !.frame_chars = CopyRows(c.frame_chars, raw, c.params.width,
                                                       c.params.height, 0, 0)],
            ret |-> "frame_chars"]

\* bound: addresses the allocator can hand out
HeapSize == 6

Addrs == 1..HeapSize

\* no block live, the three pointers NULL (0); fault records a free() of an
\* address that is not live, peak the largest number of blocks live at once
HeapZero ==
  [live |-> {}, map |-> 0, raw_pixels |-> 0, frame_chars |-> 0,
   fault |-> FALSE, peak |-> 0]

\* free(a): nothing for NULL; releasing a block that is not live is a fault
free(hp, a) ==
  IF a = 0 THEN hp
  ELSE IF a \in hp.live THEN [hp EXCEPT !.live = @ \ {a}]
  ELSE [hp EXCEPT !.fault = TRUE]

\* malloc: NULL if it fails or no address is left, else the lowest free address
malloc(hp, fails) ==
  LET avail == Addrs \ hp.live
  IN  IF fails \/ avail = {} THEN [heap |-> hp, addr |-> 0]
      ELSE LET a == CHOOSE b \in avail : \A c \in avail : b <= c
               n == Cardinality(hp.live) + 1
           IN  [heap |-> [hp EXCEPT !.live = @ \cup {a},
                                    !.peak = IF n > @ THEN n ELSE @],
                addr |-> a]

\* the allocator after bh_wasm_clear: three free() calls, then the pointers zeroed
bh_wasm_clear_heap(hp) ==
  LET h1 == free(hp, hp.map)
      h2 == free(h1, hp.raw_pixels)
      h3 == free(h2, hp.frame_chars)
  IN  [h3 EXCEPT !.map = 0, !.raw_pixels = 0, !.frame_chars = 0]

\* the allocator after bh_wasm_alloc_buffers (pixel count > 0)
bh_wasm_alloc_buffers_heap(hp, failed) ==
  LET m1 == malloc(hp, failed = "map")
      m2 == malloc(m1.heap, failed = "raw_pixels")
      m3 == malloc(m2.heap, failed = "frame_chars")
      h3 == [m3.heap EXCEPT !.map = m1.addr, !.raw_pixels = m2.addr,
                            !.frame_chars = m3.addr]
  IN  IF m1.addr = 0 \/ m2.addr = 0 \/ m3.addr = 0 THEN bh_wasm_clear_heap(h3) ELSE h3

\* allocates the new buffers without releasing those of the previous context
bh_wasm_init_heap_no_clear(hp, width, height, failed) ==
  IF width <= 0 \/ height <= 0 THEN hp
  ELSE bh_wasm_alloc_buffers_heap(hp, failed)

\* the allocator after bh_wasm_init
bh_wasm_init_heap(hp, width, height, failed) ==
  IF width <= 0 \/ height <= 0 THEN hp
  ELSE bh_wasm_alloc_buffers_heap(bh_wasm_clear_heap(hp), failed)

\* bounds: the largest width and height handed to bh_wasm_init
WasmMaxW == 2

WasmMaxH == 2

\* inc_deg, fovx_deg, robs handed to bh_wasm_init: accepted, rejected, on the limits
WasmArgs ==
  { [inc_deg |-> 30, fovx_deg |-> 90, robs |-> Fx(20, 1)],
    [inc_deg |-> 95, fovx_deg |-> 3, robs |-> Fx(5, 1)],
    [inc_deg |-> 89, fovx_deg |-> 170, robs |-> Fx(10, 1)],
    [inc_deg |-> -30, fovx_deg |-> 60, robs |-> Fx(50, 1)] }

WasmIdle ==
  /\ ctx = CtxZero /\ wop = "none" /\ wret = 0 /\ winited = FALSE
  /\ wsize = <<0, 0>> /\ heap = HeapZero

WasmInit ==
  /\ \E width \in -1..WasmMaxW, height \in 0..WasmMaxH, a \in WasmArgs,
        failed \in {"none", "map", "raw_pixels", "frame_chars"}, fill \in {"x", "y"},
        k \in 0..(Len(Residue) - 1) :
       \E r \in {bh_wasm_init(ctx, width, height, a.inc_deg, a.fovx_deg, a.robs,
                               failed, fill, k)} :
           /\ ctx' = r.ctx /\ wret' = r.ret /\ winited' = (winited \/ r.ret = 0)
           /\ wsize' = <<width, height>>
           /\ heap' = bh_wasm_init_heap(heap, width, height, failed)
  /\ wop' = "bh_wasm_init"
  /\ UNCHANGED <<traceVars, ringVars, skyVars, mapVars, rampVars, tiltVars>>

WasmDestroy ==
  /\ ctx' = bh_wasm_clear
  /\ wop' = "bh_wasm_destroy"
  /\ wret' = 0
  /\ heap' = bh_wasm_clear_heap(heap)
  /\ wsize' = <<0, 0>>
  /\ UNCHANGED winited
  /\ UNCHANGED <<traceVars, ringVars, skyVars, mapVars, rampVars, tiltVars>>

WasmGenerateFrame ==
  /\ \E ph \in FramePhases :
       LET r == bh_wasm_generate_frame(ctx, ph)
       IN  ctx' = r.ctx /\ wret' = r.ret
  /\ wop' = "bh_wasm_generate_frame"
  /\ wsize' = <<0, 0>>
  /\ UNCHANGED <<winited, heap>>
  /\ UNCHANGED <<traceVars, ringVars, skyVars, mapVars, rampVars, tiltVars>>

(***************************************************************************)
(* Tilted-plane variant: src/bh_tilt.c, next to the equatorial variant of  *)
(* src/blackhole.c, both fed the same ray states                           *)
(***************************************************************************)
\* cos of a polar angle as libm returns it: never 0. M_PI/2 lies below pi/2,
\* so cos(M_PI/2) = 6.1e-17 > 0; a magnitude below the resolution is kept as
\* one unit with its sign.
cos_double(th) ==
  LET c == Cos(th)
  IN  IF th <= HalfPi THEN (IF c < 1 THEN 1 ELSE c)
      ELSE (IF c > -1 THEN -1 ELSE c)

\* the disk normal main() computes from disk_tilt_deg
DiskNormal(tilt_deg) ==
  LET tilt == (tilt_deg * M_PI) \div 180
  IN  [ndx |-> 0, ndy |-> -Sin(tilt), ndz |-> Cos(tilt)]

sph_to_cart(r, th, ph) ==
  LET st == Sin(th)
      ct == cos_double(th)
  IN  [X |-> Mul(Mul(r, st), Cos(ph)), Y |-> Mul(Mul(r, st), Sin(ph)), Z |-> Mul(r, ct)]

plane_eval_cart(n, c) == Mul(n.ndx, c.X) + Mul(n.ndy, c.Y) + Mul(n.ndz, c.Z)

plane_eval_sph(n, r, th, ph) == plane_eval_cart(n, sph_to_cart(r, th, ph))

\* s_prev * s_curr <= 0.0
PlaneCrossing(n, xp, xc) ==
  NonPositiveProduct(plane_eval_sph(n, xp[1], xp[2], xp[3]),
                     plane_eval_sph(n, xc[1], xc[2], xc[3]))

\* f = -s_prev / (s_curr - s_prev + 1e-15), clamped to [0, 1]
PlaneFrac(n, xp, xc) ==
  LET s_prev == plane_eval_sph(n, xp[1], xp[2], xp[3])
      s_curr == plane_eval_sph(n, xc[1], xc[2], xc[3])
      f      == Div(-s_prev, PlusTiny(s_curr - s_prev))
  IN  IF f < 0 THEN 0 ELSE IF f > Fx(1, 1) THEN Fx(1, 1) ELSE f

\* the rules of the tilted variant after one integration step
RuleTilt(n, robs, stp, xp, xc) ==
  IF Captured(xc[1]) THEN "captured"
  ELSE IF Escaped(xc[1], robs, stp) THEN "escaped"
  ELSE IF PlaneCrossing(n, xp, xc)
          /\ InDisk(Lerp(xp[1], xc[1], PlaneFrac(n, xp, xc))) THEN "disk"
  ELSE "tracing"

\* the outcome a bg_type stands for
Outcome(bg) ==
  CASE bg = 1 -> "Sky" [] bg = 2 -> "Captured" [] bg = 3 -> "InnerVoid"

\* the outcome a variant returns after a step, "Tracing" if it stays in the loop
StepOutcome(rule, rm) ==
  CASE rule = "captured" -> "Captured"
    [] rule = "escaped"  -> Outcome(ClosestApproach(rm))
    [] rule = "disk"     -> "DiskHit"
    [] OTHER             -> "Tracing"

TiltIdle ==
  /\ tx_prev = Vec(0, 0, 0, 0) /\ tx = Vec(0, 0, 0, 0)
  /\ tstep = 0 /\ trmin = 0
  /\ eqH = "Idle" /\ tiltH = "Idle"

\* both variants start the trace of one pixel of a scene
TiltBegin ==
  /\ eqH = "Idle" /\ tiltH = "Idle"
  /\ LET ray == pix_ray(params, px, py)
     IN  tx' = ray.x /\ tx_prev' = ray.x /\ trmin' = ray.x[1]
  /\ tstep' = 0
  /\ eqH' = "Tracing" /\ tiltH' = "Tracing"
  /\ UNCHANGED <<traceVars, ringVars, skyVars, mapVars, rampVars, wasmVars>>

\* one integration step, classified by every variant still in its loop
TiltStep ==
  /\ eqH = "Tracing" \/ tiltH = "Tracing"
  /\ tstep < StepBudget
  /\ \E out \in rk4(tx, VOk, StepSize(tx[1])) :
       LET nrmin == IF out.x[1] < trmin THEN out.x[1] ELSE trmin
           eq    == StepOutcome(Rule(params.robs, tstep, tx_prev[2], tx_prev, out.x), nrmin)
           tl    == StepOutcome(RuleTilt(DiskNormal(0), params.robs, tstep, tx_prev, out.x),
                                nrmin)
       IN  /\ tx' = out.x
           /\ trmin' = nrmin
           /\ eqH' = IF eqH = "Tracing" THEN eq ELSE eqH
           /\ tiltH' = IF tiltH = "Tracing" THEN tl ELSE tiltH
           /\ IF eqH' = "Tracing" \/ tiltH' = "Tracing"
              THEN tx_prev' = out.x /\ tstep' = tstep + 1
              ELSE UNCHANGED <<tx_prev, tstep>>
  /\ UNCHANGED <<traceVars, ringVars, skyVars, mapVars, rampVars, wasmVars>>

\* the loop of a variant ran out of steps
TiltExhausted ==
  /\ eqH = "Tracing" \/ tiltH = "Tracing"
  /\ tstep = StepBudget
  /\ eqH' = IF eqH = "Tracing" THEN Outcome(ClosestApproach(trmin)) ELSE eqH
  /\ tiltH' = IF tiltH = "Tracing" THEN Outcome(ClosestApproach(trmin)) ELSE tiltH
  /\ UNCHANGED <<tx_prev, tx, tstep, trmin>>
  /\ UNCHANGED <<traceVars, ringVars, skyVars, mapVars, rampVars, wasmVars>>

Scenes ==
  { bh_update_derived([bh_init_scene_params EXCEPT
        !.width = GridW, !.height = GridH, !.inc_deg = inc]) : inc \in {0, 10} }

InitTrace ==
  /\ params \in Scenes
  /\ px \in 0..(GridW - 1)
  /\ py \in 0..(GridH - 1)
  /\ x = Vec(0, 0, 0, 0)
  /\ v = Vec(0, 0, 0, 0)
  /\ x_prev = Vec(0, 0, 0, 0)
  /\ v_prev = Vec(0, 0, 0, 0)
  /\ th_prev = 0
  /\ rmin = 0
  /\ step = 0
  /\ h = 0
  /\ H = [hit |-> 0, bg_type |-> 0]
  /\ pc = "call"
  /\ RingIdle
  /\ TiltIdle
  /\ WasmIdle
  /\ RampIdle
  /\ SkyIdle
  /\ MapIdle

NextTrace == TraceBegin \/ TraceStep \/ TraceExhausted

SpecTrace == InitTrace /\ [][NextTrace]_vars

TraceIdle ==
  /\ params = bh_init_scene_params
  /\ px = 0 /\ py = 0
  /\ x = Vec(0, 0, 0, 0) /\ v = Vec(0, 0, 0, 0)
  /\ x_prev = Vec(0, 0, 0, 0) /\ v_prev = Vec(0, 0, 0, 0)
  /\ th_prev = 0 /\ rmin = 0 /\ step = 0 /\ h = 0
  /\ H = [hit |-> 0, bg_type |-> 0]
  /\ pc = "idle"

InitRing == rad \in RingRadii /\ ring = -1 /\ TraceIdle /\ SkyIdle /\ MapIdle /\ RampIdle /\ WasmIdle /\ TiltIdle

NextRing == RingEval

SpecRing == InitRing /\ [][NextRing]_vars

InitRamp ==
  /\ rval \in RampValues
  /\ rnorm \in RampNorms
  /\ ridx = -1
  /\ rch = "?"
  /\ TraceIdle
  /\ RingIdle
  /\ TiltIdle
  /\ WasmIdle
  /\ SkyIdle
  /\ MapIdle

NextRamp == RampEval

SpecRamp == InitRamp /\ [][NextRamp]_vars

InitWasm ==
  /\ ctx = CtxZero
  /\ wop = "none"
  /\ wret = 0
  /\ winited = FALSE
  /\ wsize = <<0, 0>>
  /\ heap = HeapZero
  /\ TraceIdle
  /\ RingIdle
  /\ TiltIdle
  /\ SkyIdle
  /\ MapIdle
  /\ RampIdle

NextWasm == WasmInit \/ WasmDestroy \/ WasmGenerateFrame

SpecWasm == InitWasm /\ [][NextWasm]_vars

InitTilt ==
  /\ params \in Scenes
  /\ px = 0
  /\ py = 0
  /\ x = Vec(0, 0, 0, 0) /\ v = Vec(0, 0, 0, 0)
  /\ x_prev = Vec(0, 0, 0, 0) /\ v_prev = Vec(0, 0, 0, 0)
  /\ th_prev = 0 /\ rmin = 0 /\ step = 0 /\ h = 0
  /\ H = [hit |-> 0, bg_type |-> 0]
  /\ pc = "idle"
  /\ TiltIdle
  /\ RingIdle
  /\ WasmIdle
  /\ RampIdle
  /\ SkyIdle
  /\ MapIdle

NextTilt == TiltBegin \/ TiltStep \/ TiltExhausted

SpecTilt == InitTilt /\ [][NextTilt]_vars

InitSky ==
  /\ sx \in 0..(SkyW - 1)
  /\ sy \in 0..(SkyH - 1)
  /\ phase \in Phases
  /\ ch = "?"
  /\ TraceIdle
  /\ RingIdle
  /\ TiltIdle
  /\ WasmIdle
  /\ RampIdle
  /\ MapIdle

NextSky == SkyEval \/ SkyNextFrame

SpecSky == InitSky /\ [][NextSky]_vars

InitMap ==
  /\ params = bh_update_derived([bh_init_scene_params EXCEPT
                                   !.width = GridW, !.height = GridH])
  /\ \E first \in 0..(Len(TraceResults(params)) - 1), stride \in 0..1 :
       lens = Lens(params, first, stride)
  /\ map = <<>> /\ map_first = <<>> /\ traces = 0
  /\ norm_scale = -1
  /\ frame = <<>> /\ shown = <<>> /\ shown_phase = 0 /\ frames = 0
  /\ px = 0 /\ py = 0
  /\ x = Vec(0, 0, 0, 0) /\ v = Vec(0, 0, 0, 0)
  /\ x_prev = Vec(0, 0, 0, 0) /\ v_prev = Vec(0, 0, 0, 0)
  /\ th_prev = 0 /\ rmin = 0 /\ step = 0 /\ h = 0
  /\ H = [hit |-> 0, bg_type |-> 0]
  /\ pc = "idle"
  /\ RingIdle
  /\ TiltIdle
  /\ WasmIdle
  /\ RampIdle
  /\ SkyIdle

Next == bh_trace_map \/ ComputeNorm \/ GenerateFrame

Spec == InitMap /\ [][Next]_vars

(***************************************************************************)
(* Properties of trace_pixel (checked under SpecTrace)                     *)
(***************************************************************************)
Returned == pc = "done"

\* the plane was crossed inside the annulus in the last step taken
LastStepCrossedDisk ==
  /\ Crossing(th_prev, x[2])
  /\ InDisk(Lerp(x_prev[1], x[1], CrossFrac(th_prev, x[2])))

\* C1: every trace ends within the step budget in exactly one of the four
\* outcomes DiskHit (hit=1), Sky (1), Captured (2), InnerVoid (3); a trace
\* that has not returned is about to start or can take its next step, and no
\* return leaves hit=0 with bg_type=0.
C1_FourOutcomes ==
  /\ step <= StepBudget
  /\ (~Returned => (pc = "call" \/ ENABLED (TraceStep \/ TraceExhausted)))
  /\ (Returned => \/ (H.hit = 1 /\ H.bg_type = 0)
                  \/ (H.hit = 0 /\ H.bg_type \in {1, 2, 3}))

C1_Witness == Returned /\ step = StepBudget /\ H.hit = 0 /\ H.bg_type = 1

\* C2 as stated: a ray whose minimum radius stays >= 3M is classified Sky by
\* the closest-approach rule.
C2_SkyFrom3M ==
  (Returned /\ H.hit = 0 /\ rmin >= 3 * Mbh) => H.bg_type = 1

\* C2 amended: the closest-approach rule yields Sky when the minimum radius
\* stays >= rin (6M), and InnerVoid when it lies in [3M, 6M).
C2_SkyFromRin ==
  (Returned /\ H.hit = 0) =>
     /\ (rmin >= rin => H.bg_type = 1)
     /\ (rmin >= 3 * Mbh /\ rmin < rin => H.bg_type = 3)

C2_Witness ==
  Returned /\ H.hit = 0 /\ step = StepBudget /\ rmin >= rin /\ H.bg_type = 1

\* C3: once the running minimum radius is below the horizon radius 2M the
\* trace has returned Captured; no DiskHit is returned for it.
C3_HorizonCaptured ==
  (pc # "call" /\ rmin < rh) => (Returned /\ H.hit = 0 /\ H.bg_type = 2)

C3_Witness ==
  Returned /\ rmin < rh /\ H.bg_type = 2 /\ LastStepCrossedDisk

\* C4: the redshift factor of every DiskHit is >= 0.
C4_RedshiftNonNegative == (Returned /\ H.hit = 1) => H.g >= 0

\* a DiskHit whose raw ratio Eobs/Eem was negative
C4_Witness ==
  /\ Returned /\ H.hit = 1 /\ H.g = 0
  /\ LET f == CrossFrac(th_prev, x[2])
     IN  Redshift(params.robs, Lerp(x_prev[1], x[1], f),
                  [i \in 0..3 |-> Lerp(v_prev[i], v[i], f)]) < 0

\* C5: the azimuth stored in every DiskHit lies in [0, 2*pi).
C5_AzimuthWrapped == (Returned /\ H.hit = 1) => (H.phi >= 0 /\ H.phi < TwoPi)

(***************************************************************************)
(* Properties of ring_mul (SpecRing) and sky_char (SpecSky)                *)
(***************************************************************************)
Near(a, b) == Abs(a - b) <= Fx(1, 100)

\* C10: ring_mul is continuous at the disk boundaries: at and beyond rin it
\* equals its value just inside the inner boundary, at and beyond rout it
\* equals its value just inside the outer boundary.
C10_RingContinuous ==
  ring # -1 =>
     /\ (rad <= rin => Near(ring, ring_mul(rin + 1)))
     /\ (rad >= rout => Near(ring, ring_mul(rout - 1)))

SkyTier == SkyHash(sx, sy).lo

\* C9: a Sky pixel of the densest tier (r < 12000) shows '.' and one of the
\* empty tier (r >= 16800) shows ' ' at every phase; the two tiers between
\* show '+' or '*'.
C9_SkyTiers ==
  ch # "?" =>
     /\ (SkyTier < 12000 => ch = ".")
     /\ (SkyTier >= 16800 => ch = " ")
     /\ (SkyTier >= 12000 /\ SkyTier < 16800 => ch \in {"+", "*"})

C9_Witness == ch = "." /\ SkyTier < 12000 /\ phase > 0

(***************************************************************************)
(* Properties of the lens map, the normalisation and the compositor (Spec) *)
(***************************************************************************)
DiskHits(m) == { i \in DOMAIN m : m[i].hit # 0 }

\* the largest baseline emiss * g^3 * ring_mul(r) over the DiskHit entries
MaxBaseline(m) ==
  LET B == { base_disk_value(m[i]) : i \in DiskHits(m) }
  IN  CHOOSE b \in B : \A c \in B : c <= b

NormComputed == norm_scale # -1 /\ DiskHits(map) # {}

\* C6 as stated: for a lens map with a DiskHit the scale is positive and the
\* largest baseline divided by the scale is 1.
C6_UnitMaximum ==
  NormComputed =>
     (norm_scale > 0 /\ Div(MaxBaseline(map), norm_scale) = Fx(1, 1))

\* C6 amended: for a lens map with a DiskHit the scale is positive; the largest
\* baseline divided by the scale is 1 when that baseline reaches the floor the
\* scan starts from, and otherwise the scale is that floor.
C6_UnitMaximumAboveFloor ==
  NormComputed =>
     /\ norm_scale > 0
     /\ (MaxBaseline(map) >= NormFloor => Div(MaxBaseline(map), norm_scale) = Fx(1, 1))
     /\ (MaxBaseline(map) < NormFloor => norm_scale = NormFloor)

\* a map with DiskHits of different baselines, scaled by the largest
C6_Witness ==
  /\ NormComputed
  /\ norm_scale = MaxBaseline(map)
  /\ norm_scale > NormFloor
  /\ \E i \in DiskHits(map) : base_disk_value(map[i]) < norm_scale

\* C7: the lens map a second bh_trace_map call writes for the same scene equals,
\* field by field, the one the first call wrote.
C7_TraceMapRepeatable == traces >= 2 => map = map_first

\* C8: a frame generated for the phase of the first call equals the frame of
\* the first call, whatever the buffer held and whatever was generated between.
C8_FrameRepeatable ==
  (frames >= 2 /\ phase = shown_phase) => frame = shown

C8_Witness ==
  /\ frames = MaxFrames
  /\ phase = shown_phase
  /\ frame = shown
  /\ \E i \in 0..(bh_pixel_count(params) - 1) : frame[i] = " "
  /\ \E i \in 0..(bh_pixel_count(params) - 1) : frame[i] \notin {" ", "x", "y"}

(***************************************************************************)
(* Properties of the quantiser (SpecRamp)                                  *)
(***************************************************************************)
\* value / norm_scale as the compositor forms it
RampRatio(val) == Div(val, IF rnorm <= 0 THEN Fx(1, 1) ELSE rnorm)

Clamp01(a) == IF a < 0 THEN 0 ELSE IF a > Fx(1, 1) THEN Fx(1, 1) ELSE a

\* C11: the symbol of a DiskHit pixel is RAMP[i] with i = floor(q * (L-1)),
\* q = clamp(value / norm_scale, 0, 1) ^ gamma and L = 30; 0 <= i <= L-1, and a
\* pixel with a smaller value / norm_scale never gets a larger index.
C11_RampIndex ==
  ridx # -1 =>
     /\ Len(RAMP) = 30
     /\ ridx = (Pow(Clamp01(RampRatio(rval)), params.gamma_c) * 29) \div Scale
     /\ ridx >= 0 /\ ridx <= 29
     /\ rch = RAMP[ridx + 1]
     /\ \A w \in RampValues :
          RampRatio(w) <= RampRatio(rval) =>
             RampIndex(params.gamma_c, w, IF rnorm <= 0 THEN Fx(1, 1) ELSE rnorm) <= ridx

\* the brightest level, reached by a clamped ratio above 1
C11_Witness == ridx = 29 /\ rch = "@" /\ RampRatio(rval) > Fx(1, 1)

(***************************************************************************)
(* Properties of the compositor (Spec), continued                          *)
(***************************************************************************)
Pixels == 0..(bh_pixel_count(params) - 1)

\* C12: a pixel tagged Captured (2) or InnerVoid (3) shows ' ' in every frame,
\* whatever its coordinate and the phase.
C12_EmptyLevel ==
  frame # <<>> =>
     \A idx \in Pixels :
        (map[idx].hit = 0 /\ map[idx].bg_type \in {2, 3}) => frame[idx] = " "

\* an InnerVoid pixel at a coordinate where the starfield has a star
C12_Witness ==
  /\ frame # <<>>
  /\ \E idx \in Pixels :
       /\ map[idx].hit = 0 /\ map[idx].bg_type = 3
       /\ sky_char(idx % params.width, idx \div params.width, phase) # " "
       /\ frame[idx] = " "

\* C13 as stated: in the bridge ctx.map and ctx.norm_scale are written by
\* bh_wasm_init and by nothing else
C13_WrittenOnlyByInit ==
  [][(ctx'.map # ctx.map \/ ctx'.norm_scale # ctx.norm_scale) => wop' = "bh_wasm_init"]_vars

\* C13: ctx.map and ctx.norm_scale change only in bh_wasm_init and in
\* bh_wasm_destroy (which resets them); a bh_wasm_generate_frame call leaves the
\* map, the scene parameters and norm_scale as they were
C13_MapReadOnly ==
  [][/\ (ctx'.map # ctx.map \/ ctx'.norm_scale # ctx.norm_scale)
        => wop' \in {"bh_wasm_init", "bh_wasm_destroy"}
     /\ wop' = "bh_wasm_generate_frame"
        => /\ ctx'.map = ctx.map
           /\ ctx'.norm_scale = ctx.norm_scale
           /\ ctx'.params = ctx.params]_vars

\* a frame was generated from a traced map
C13_Witness ==
  /\ wop = "bh_wasm_generate_frame"
  /\ wret = "frame_chars"
  /\ \E idx \in DOMAIN ctx.map : ctx.map[idx].hit # 0
  /\ \A idx \in DOMAIN ctx.raw_pixels : ctx.raw_pixels[idx] \notin {"x", "y"}

\* the core functions: bh_compute_norm_scale and bh_generate_ascii_frame leave
\* every Hit of the map and the scene parameters unchanged
C13_CoreMapReadOnly ==
  [][(ComputeNorm \/ GenerateFrame) => map' = map /\ params' = params]_vars

\* C14: after bh_generate_ascii_frame the buffer holds, for every pixel (x, y)
\* of the grid, the symbol of that pixel at index y*width + x; no cell at an
\* index >= width*height was written, and no cell holds a line separator
C14_FrameLayout ==
  frame # <<>> =>
     LET scale == IF norm_scale <= 0 THEN Fx(1, 1) ELSE norm_scale
     IN  /\ \A xx \in 0..(params.width - 1), yy \in 0..(params.height - 1) :
              frame[yy * params.width + xx] =
                PixelChar(params, map[yy * params.width + xx], xx, yy, phase, scale)
         /\ \A idx \in DOMAIN frame :
              idx >= params.width * params.height => frame[idx] = "guard"
         /\ \A idx \in DOMAIN frame : frame[idx] # "\n"

\* a frame written over the previous frame: every pixel cell written, some
\* with a visible symbol, the cells behind the frame as the caller left them
C14_Witness ==
  /\ frames >= 2
  /\ \A idx \in Pixels : frame[idx] \notin {"x", "y", "guard"}
  /\ \E idx \in Pixels : frame[idx] # " "
  /\ \E idx \in Pixels : frame[idx] # shown[idx]
  /\ frame[params.width * params.height] = "guard"

\* the trace returned from inside the loop, after the step that produced x
ReturnedInStep == Returned /\ step < StepBudget

\* C15: after a step the rules are tried in the order Captured, Escaped,
\* DiskHit. A step that ends at or inside the capture radius returns Captured
\* even when it crosses the plane inside the annulus; a step that meets the
\* escape condition returns the closest-approach class, not a DiskHit, even
\* when it crosses the plane inside the annulus; a DiskHit is returned only
\* by a step that neither captures nor escapes.
C15_RuleOrder ==
  ReturnedInStep =>
     /\ Captured(x[1]) => (H.hit = 0 /\ H.bg_type = 2)
     /\ (~Captured(x[1]) /\ Escaped(x[1], params.robs, step))
           => (H.hit = 0 /\ H.bg_type = ClosestApproach(rmin))
     /\ H.hit = 1 => (~Captured(x[1]) /\ ~Escaped(x[1], params.robs, step)
                      /\ LastStepCrossedDisk)

\* an escaping step that crossed the plane inside the annulus
C15_Witness ==
  /\ ReturnedInStep
  /\ ~Captured(x[1])
  /\ Escaped(x[1], params.robs, step)
  /\ LastStepCrossedDisk
  /\ H.hit = 0 /\ H.bg_type = 1

\* C16: a step that ends beyond 1.2 * robs (outside the capture radius) ends
\* the trace with the closest-approach class when it is the 10th integration
\* step or a later one, and does not end it as escaped when fewer than 10
\* steps have been taken.
C16_EscapeAfterTenSteps ==
  [][(pc = "loop" /\ step < StepBudget
      /\ x'[1] > Mul(Fx(12, 10), params.robs) /\ ~Captured(x'[1]))
     => IF step + 1 >= 10
        THEN pc' = "done" /\ H'.hit = 0 /\ H'.bg_type = ClosestApproach(rmin')
        ELSE pc' = "loop" \/ H'.hit = 1]_vars

\* Captured (2) below 3M, InnerVoid (3) from 3M up to rin = 6M, Sky (1) beyond
ThreeTier(rm) ==
  IF rm < Fx(3, 1) THEN 2 ELSE IF rm < Fx(6, 1) THEN 3 ELSE 1

\* the trace returned through the escape test
ReturnedEscaped ==
  ReturnedInStep /\ ~Captured(x[1]) /\ Escaped(x[1], params.robs, step)

\* the trace returned because the step budget ran out
ReturnedExhausted == Returned /\ step = StepBudget

\* C17: on the escape path and on the exhaustion path alike the class is
\* Captured if rmin < 3M, InnerVoid if 3M <= rmin < 6M, Sky otherwise; rmin
\* starts at the observer radius, each step replaces it by the smaller of
\* itself and the radius after the step, and it never grows.
C17_ClosestApproach ==
  /\ []((ReturnedEscaped \/ ReturnedExhausted)
          => (H.hit = 0 /\ H.bg_type = ThreeTier(rmin)))
  /\ [][/\ pc = "call" => rmin' = params.robs
        /\ pc = "loop" =>
             /\ rmin' = (IF x'[1] < rmin THEN x'[1] ELSE rmin)
             /\ rmin' <= rmin]_vars

\* an escape classified InnerVoid: the ray dipped between 3M and 6M and left
C17_Witness ==
  /\ ReturnedEscaped
  /\ H.bg_type = 3
  /\ rmin >= Fx(3, 1) /\ rmin < Fx(6, 1)
  /\ rmin < params.robs /\ rmin < x[1]

\* C18: each iteration hands the integrator one step size, chosen from the
\* radius before the step alone: 0.5 when r >= 10M, a quarter of it when
\* 6M <= r < 10M, an eighth of it when r < 6M; the state the integrator
\* returns is taken as it is (one rk4 result per iteration, no retry).
C18_StepSize ==
  [][(pc = "loop" /\ step < StepBudget) =>
       /\ x[1] >= Fx(10, 1) => h' = Fx(1, 2)
       /\ (x[1] >= Fx(6, 1) /\ x[1] < Fx(10, 1)) => h' = Mul(Fx(1, 4), Fx(1, 2))
       /\ x[1] < Fx(6, 1) => h' = Mul(Fx(1, 8), Fx(1, 2))
       /\ \E out \in rk4(x, v, h') : x' = out.x /\ v' = out.v
       /\ (pc' = "loop" => step' = step + 1)]_vars

\* a returning step taken from inside 6M with the eighth step
C18_Witness ==
  /\ ReturnedInStep
  /\ step >= 2
  /\ x_prev[1] < Fx(6, 1)
  /\ h = Mul(Fx(1, 8), Fx(1, 2))
  /\ h < Mul(Fx(1, 4), Fx(1, 2))

\* the radius at which the step from x_prev to xc meets the plane
CrossRadius(thp, xp, xc) == Lerp(xp[1], xc[1], CrossFrac(thp, xc[2]))

\* C19: every DiskHit has rin <= r <= rout and comes from a step that crossed
\* the plane there; a step that crosses the plane outside the annulus (and
\* neither captures nor escapes) returns nothing: the trace stays in the loop
\* with the previous state advanced to the state after the step.
C19_AnnulusOnly ==
  /\ []((Returned /\ H.hit = 1)
          => (H.r >= Fx(6, 1) /\ H.r <= Fx(40, 1)
              /\ Crossing(th_prev, x[2])
              /\ H.r = CrossRadius(th_prev, x_prev, x)))
  /\ [][(/\ pc = "loop" /\ step < StepBudget
         /\ ~Captured(x'[1]) /\ ~Escaped(x'[1], params.robs, step)
         /\ Crossing(th_prev, x'[2])
         /\ ~(CrossRadius(th_prev, x_prev, x') >= Fx(6, 1)
              /\ CrossRadius(th_prev, x_prev, x') <= Fx(40, 1)))
        => (/\ pc' = "loop" /\ H' = H
            /\ th_prev' = x'[2] /\ x_prev' = x' /\ v_prev' = v')]_vars

\* a DiskHit on the way back: the observer is north of the plane, the step
\* that hit started south of it, so an earlier crossing returned nothing
C19_Witness ==
  /\ Returned /\ H.hit = 1
  /\ params.theta_obs < HalfPi
  /\ th_prev > HalfPi
  /\ x[2] < HalfPi

\* C20: at tilt 0, on the same ray states, the tilted-plane test reports a
\* crossing at a step exactly when the equatorial test does, and the two
\* variants return the same outcome for the ray.
C20_TiltZeroReduces ==
  /\ [](eqH = tiltH)
  /\ [][(eqH = "Tracing" /\ tiltH = "Tracing" /\ tstep < StepBudget)
        => (Crossing(tx_prev[2], tx'[2]) <=> PlaneCrossing(DiskNormal(0), tx_prev, tx'))]_vars

\* the observer in the plane (inc_deg = 0): the first step, heading north, is
\* a crossing for the equatorial test and none for the tilted one
C20_InPlaneObserverSplit ==
  /\ params.inc_deg = 0
  /\ tstep = 1
  /\ tx[2] < HalfPi
  /\ eqH = "DiskHit"
  /\ tiltH = "Tracing"

\* the three buffers of a context
AllNull(c) == c.map = <<>> /\ c.raw_pixels = <<>> /\ c.frame_chars = <<>>

AllAllocated(c) == c.map # <<>> /\ c.raw_pixels # <<>> /\ c.frame_chars # <<>>

\* the map and norm_scale of a context are those of its parameters
MapComputed(c) ==
  /\ \E k \in 0..(Len(Residue) - 1) : c.map = TracedMap(c.params, SceneLens(c.params), k)
  /\ c.norm_scale = bh_compute_norm_scale(c.params, c.map)

\* C21: the three buffers are all NULL or all allocated. They are NULL until
\* an init has returned 0, after bh_wasm_destroy and after an init that
\* failed in allocation, and only an init returning 0 allocates them.
\* bh_wasm_generate_frame returns NULL exactly when they are NULL, and a
\* frame only from three allocated buffers whose map and norm_scale are the
\* ones computed for the parameters in the context.
C21_BuffersAllOrNone ==
  /\ [](AllNull(ctx) \/ AllAllocated(ctx))
  /\ [](~winited => AllNull(ctx))
  /\ [][/\ wop' = "bh_wasm_destroy" => AllNull(ctx')
        /\ (wop' = "bh_wasm_init" /\ wret' = -2) => AllNull(ctx')
        /\ (AllNull(ctx) /\ ~AllNull(ctx')) => (wop' = "bh_wasm_init" /\ wret' = 0)
        /\ wop' = "bh_wasm_generate_frame" =>
             /\ wret' = "NULL" <=> AllNull(ctx)
             /\ wret' # "NULL" => (AllAllocated(ctx) /\ MapComputed(ctx))
             /\ AllNull(ctx') <=> AllNull(ctx)]_vars

\* a NULL frame after the buffers of a successful init were given up again
\* (by bh_wasm_destroy or by an init that failed in allocation)
C21_Witness ==
  /\ wop = "bh_wasm_generate_frame"
  /\ wret = "NULL"
  /\ winited
  /\ AllNull(ctx)
  /\ ctx.params = ParamsZero

\* the blocks the three pointers of the context refer to
Referenced(hp) == {hp.map, hp.raw_pixels, hp.frame_chars} \ {0}

\* the allocator and the context agree on which buffers are NULL
PointersAgree(hp, c) ==
  /\ hp.map = 0 <=> c.map = <<>>
  /\ hp.raw_pixels = 0 <=> c.raw_pixels = <<>>
  /\ hp.frame_chars = 0 <=> c.frame_chars = <<>>

InitRejected(size) == size[1] <= 0 \/ size[2] <= 0

\* C22: bh_wasm_init with width <= 0 or height <= 0 returns -1 and leaves the
\* whole context and the allocator as they were, so a context with buffers
\* still yields a frame; every other bh_wasm_init releases the three blocks
\* of the previous context. No block is ever released twice, no block stays
\* live without a pointer of the context to it, and at most three blocks are
\* live at once (the old ones are released before the new ones are taken).
C22_RejectedInitKeepsContext ==
  /\ []( /\ ~heap.fault
         /\ heap.live = Referenced(heap)
         /\ Cardinality(heap.live) \in {0, 3}
         /\ heap.peak <= 3
         /\ PointersAgree(heap, ctx)
         /\ (wop = "bh_wasm_init" /\ InitRejected(wsize) /\ AllAllocated(ctx)) =>
              \A ph \in FramePhases : bh_wasm_generate_frame(ctx, ph).ret = "frame_chars" )
  /\ [][wop' = "bh_wasm_init" =>
         IF InitRejected(wsize')
         THEN /\ wret' = -1
              /\ ctx' = ctx /\ heap' = heap /\ winited' = winited
         ELSE /\ wret' \in {0, -2}
              /\ ctx'.params.width = wsize'[1] \/ AllNull(ctx')
              /\ heap.live \cap bh_wasm_clear_heap(heap).live = {}
              /\ \E failed \in {"none", "map", "raw_pixels", "frame_chars"} :
                   heap' = bh_wasm_alloc_buffers_heap(bh_wasm_clear_heap(heap), failed)]_vars

\* a rejected bh_wasm_init after a successful one: the context still holds the
\* buffers, map and parameters of the earlier scene
C22_Witness ==
  /\ wop = "bh_wasm_init"
  /\ wret = -1
  /\ InitRejected(wsize)
  /\ AllAllocated(ctx)
  /\ MapComputed(ctx)
  /\ Cardinality(heap.live) = 3

====
